---- MODULE Spec2Model ----
(***************************************************************************)
(* State-machine model of src/components/maps/kyoshin-monitor.tsx: the     *)
(* KyoshinMonitor React component (station-list loader, intensity snapshot *)
(* poller, overlay projector) together with the module-level               *)
(* kyoshinDataCache shared by all of its instances.                        *)
(***************************************************************************)
EXTENDS Integers, Sequences, FiniteSets, TLC

\* ------------------------------------------------------------------ bounds
NumInst == 2        \* component instances that are ever mounted
MaxReq == 3         \* snapshot requests issued in one behaviour
Step == 250         \* granularity (ms) by which application time advances
MaxNow == 1500      \* application time stops advancing here
MaxStations == 3    \* longest station list given to the projector
MaxCodes == 3       \* longest intensity-code string given to the projector

\* ------------------------------------------------------- program constants
RateLimitMs == 500  \* kyoshin-monitor.tsx:177
Radius == 3         \* kyoshin-monitor.tsx:265

Inst == 1..NumInst
ReqIds == 1..MaxReq

Min(a, b) == IF a < b THEN a ELSE b

\* ------------------------------------------------------------ JSON values
\* A parsed snapshot body (KmoniData).  isNull marks the initial useState(null);
\* realTimeData / timestamp / hasIntensity say which members the body carries,
\* intensity is the code string as a sequence of one-character strings.
NullData ==
    [isNull |-> TRUE, realTimeData |-> FALSE, timestamp |-> FALSE,
     hasIntensity |-> FALSE, intensity |-> <<>>]

Kmoni(ts, int) ==
    [isNull |-> FALSE, realTimeData |-> TRUE, timestamp |-> ts,
     hasIntensity |-> TRUE, intensity |-> int]

\* the body {"realTimeData": {"timestamp": ...}} : no intensity member
NoIntensityData ==
    [isNull |-> FALSE, realTimeData |-> TRUE, timestamp |-> TRUE,
     hasIntensity |-> FALSE, intensity |-> <<>>]

\* the body {} : no realTimeData member at all
EmptyObjectData ==
    [isNull |-> FALSE, realTimeData |-> FALSE, timestamp |-> FALSE,
     hasIntensity |-> FALSE, intensity |-> <<>>]

\* kmoniData?.realTimeData?.intensity is truthy: present and not the empty string
IntensityTruthy(d) ==
    /\ ~d.isNull
    /\ d.realTimeData
    /\ d.hasIntensity
    /\ Len(d.intensity) > 0

\* --------------------------------------------------------- colour lookup
colorList ==
    [a |-> "#00000000", b |-> "#00000000", c |-> "#00000000",
     d |-> "#0000FF", e |-> "#0033FF", f |-> "#0066FF", g |-> "#0099FF",
     h |-> "#00CCFF", i |-> "#00FF99", j |-> "#00FF66", k |-> "#44FF00",
     l |-> "#88FF00", m |-> "#CCFF00", n |-> "#FFFF00", o |-> "#FFCC00",
     p |-> "#FF9900", q |-> "#FF6600", r |-> "#FF3300", s |-> "#FF0000",
     t |-> "#CC0000", u |-> "#990000", v |-> "#660000", w |-> "#330000",
     x |-> "#331A1A", y |-> "#663333", z |-> "#993333"]

FallbackColor == "#b00201"

\* String.prototype.toLowerCase on a one-character string
UpperToLower ==
    [A |-> "a", B |-> "b", C |-> "c", D |-> "d", E |-> "e", F |-> "f",
     G |-> "g", H |-> "h", I |-> "i", J |-> "j", K |-> "k", L |-> "l",
     M |-> "m", N |-> "n", O |-> "o", P |-> "p", Q |-> "q", R |-> "r",
     S |-> "s", T |-> "t", U |-> "u", V |-> "v", W |-> "w", X |-> "x",
     Y |-> "y", Z |-> "z"]

toLowerCase(ch) == IF ch \in DOMAIN UpperToLower THEN UpperToLower[ch] ELSE ch

convertStringToColorNoFold(ch) ==
    IF ch \in DOMAIN colorList THEN colorList[ch] ELSE FallbackColor

convertStringToColor(ch) ==
    IF toLowerCase(ch) \in DOMAIN colorList
    THEN colorList[toLowerCase(ch)]
    ELSE FallbackColor

\* ------------------------------------------------------ overlay projector
\* One feature pushed by the loop body for station pt = <<lat, lng>>.
MakeFeature(pt, ch) ==
    [coordinates |-> <<pt[2], pt[1]>>,
     color |-> convertStringToColor(ch),
     radius |-> Radius]

\* the test of the loop body that skips a station
SkipsCodeOnlyA(ch) == ch = "a"

SkipsCode(ch) == ch = "a" \/ ch = "b" \/ ch = "c"

\* for (let idx = 0; idx < maxPoints; idx++) { ... }, idx counted from 1 here
RECURSIVE FeatureLoop(_, _, _, _, _)
FeatureLoop(idx, maxPoints, pl, int, features) ==
    IF idx > maxPoints THEN features
    ELSE IF SkipsCode(int[idx])
         THEN FeatureLoop(idx + 1, maxPoints, pl, int, features)
         ELSE FeatureLoop(idx + 1, maxPoints, pl, int,
                          Append(features, MakeFeature(pl[idx], int[idx])))

\* the early return of the useMemo
OverlayIsNoOpIgnoringEnable(enable, data, pl) ==
    ~IntensityTruthy(data) \/ Len(pl) = 0

OverlayIsNoOp(enable, data, pl) ==
    ~enable \/ ~IntensityTruthy(data) \/ Len(pl) = 0

\* the features of the FeatureCollection the useMemo returns
siteGeoJSON(enable, data, pl) ==
    IF OverlayIsNoOp(enable, data, pl) THEN <<>>
    ELSE FeatureLoop(1, Min(Len(pl), Len(data.intensity)), pl,
                     data.intensity, <<>>)

\* ------------------------------------------------------------------ state
VARIABLES
    kyoshinDataCache,       \* module-level cache: pointList, lastFetchedTime, abortController
    nowAppTimeRef,          \* nowAppTimeRef.current, the application time (ms)
    onTimeUpdate,           \* TRUE iff the host supplied the onTimeUpdate prop
    life,                   \* per instance: "new", "mounted" or "unmounted"
    enableKyoshinMonitor,   \* per instance: the enableKyoshinMonitor prop
    pointList,              \* per instance: useState pointList
    kmoniData,              \* per instance: useState kmoniData
    fetchingRef,            \* per instance: fetchingRef.current
    lastFetchTime,          \* per instance: lastFetchTime.current
    isMountedRef,           \* per instance: isMountedRef.current
    intervalId,             \* per instance: TRUE iff the setInterval timer is running
    siteFetch,              \* per instance: position or outcome of fetchSiteList
    req,                    \* per snapshot request: one call of fetchKyoshinMonitorData past the rate limit
    rafQueue,               \* requestAnimationFrame callbacks not yet run (request ids, FIFO)
    timeCalls,              \* per instance: onTimeUpdate invocations (count, source of the last)
    uncaught,               \* TRUE iff an exception escaped fetchKyoshinMonitorData or fetchSiteList
    proj                    \* inputs and output of one evaluation of the projector

vars ==
    <<kyoshinDataCache, nowAppTimeRef, onTimeUpdate, life, enableKyoshinMonitor,
      pointList, kmoniData, fetchingRef, lastFetchTime, isMountedRef, intervalId,
      siteFetch, req, rafQueue, timeCalls, uncaught, proj>>

instVars ==
    <<life, enableKyoshinMonitor, pointList, kmoniData, fetchingRef,
      lastFetchTime, isMountedRef, intervalId, siteFetch>>

\* station coordinates <<latitude, longitude>>
P1 == <<35, 139>>
P2 == <<34, 135>>

\* bodies the two endpoints may answer with
SiteLists == {<<>>, <<P1>>, <<P1, P2>>}
SnapshotBodies ==
    {Kmoni(TRUE, <<"s", "d">>), Kmoni(FALSE, <<"A", "d">>), EmptyObjectData,
     NullData}

NoReq ==
    [state |-> "none", owner |-> 0, timer |-> FALSE, data |-> NullData]

IdleProj ==
    [enable |-> FALSE, data |-> NullData, pointList |-> <<>>,
     features |-> <<>>, rendered |-> FALSE]

\* the state before any instance is mounted, in a process whose cache holds cached
BaseInit(cached) ==
    /\ kyoshinDataCache =
           [pointList |-> cached, lastFetchedTime |-> 0, abortController |-> 0]
    /\ nowAppTimeRef = 0
    /\ onTimeUpdate \in BOOLEAN
    /\ life = [i \in Inst |-> "new"]
    /\ enableKyoshinMonitor = [i \in Inst |-> FALSE]
    /\ pointList = [i \in Inst |-> <<>>]
    /\ kmoniData = [i \in Inst |-> NullData]
    /\ fetchingRef = [i \in Inst |-> FALSE]
    /\ lastFetchTime = [i \in Inst |-> 0]
    /\ isMountedRef = [i \in Inst |-> TRUE]
    /\ intervalId = [i \in Inst |-> FALSE]
    /\ siteFetch = [i \in Inst |-> "idle"]
    /\ req = [r \in ReqIds |-> NoReq]
    /\ rafQueue = <<>>
    /\ timeCalls = [i \in Inst |-> [n |-> 0, last |-> "none"]]
    /\ uncaught = FALSE

Init ==
    /\ BaseInit(<<>>)
    /\ proj = IdleProj

\* ------------------------------------------------------- snapshot requests
\* request r is in flight: issued and neither completed nor aborted
Pending(r) == req[r].state \in {"fetching", "parsing"}

\* requests are numbered in issue order; the next id to hand out
NextReq == Cardinality({r \in ReqIds : req[r].state # "none"}) + 1

\* if (!nowAppTimeRef.current) return; ... if (now - lastFetchTime.current < 500) return;
\* (last is lastFetchTime.current of the calling instance)
RateLimitedOnceIssued(last) ==
    \/ nowAppTimeRef = 0
    \/ nowAppTimeRef - last < RateLimitMs
    \/ last > 0

RateLimited(last) ==
    \/ nowAppTimeRef = 0
    \/ nowAppTimeRef - last < RateLimitMs

\* catch (err) { AbortError: console.log ... else: console.error ... }
CatchesAbortOnly(err) == err = "AbortError"

Catches(err) == IF err = "AbortError" THEN TRUE ELSE TRUE

\* finally { kyoshinDataCache.abortController = null; } of request r, on cache
Finally(cache, r) == [cache EXCEPT !.abortController = 0]

\* controller.abort() on the controller c held by the cache (0 is null) has a
\* pending fetch() or res.json() promise to reject
Rejects(c) == c # 0 /\ req[c].state \in {"fetching", "parsing"}

\* abort() rejects that promise synchronously, so the aborted call's catch and
\* finally run in the microtask checkpoint of the aborting task, after its
\* synchronous code: the aborted call is settled in the same step.  Its
\* setTimeout is not cleared on this path (clearTimeout follows await fetch).
AbortIn(reqs, c) ==
    [r \in ReqIds |->
        IF r = c /\ Rejects(c) THEN [reqs[r] EXCEPT !.state = "failed"]
        ELSE reqs[r]]

\* the cache after the handler left it as `cache` and the call aborted by it ran its finally
AfterAbort(cache, c) == IF Rejects(c) THEN Finally(cache, c) ELSE cache

UncaughtAfterAbort(c) == uncaught \/ (Rejects(c) /\ ~Catches("AbortError"))

\* One call of fetchKyoshinMonitorData by instance i up to its first await;
\* lft is the instances' lastFetchTime.current at the call.
fetchKyoshinMonitorData(i, lft) ==
    IF RateLimited(lft[i])
    THEN /\ lastFetchTime' = lft
         /\ UNCHANGED <<kyoshinDataCache, req, uncaught>>
    ELSE /\ NextReq <= MaxReq
         /\ lastFetchTime' = [lft EXCEPT ![i] = nowAppTimeRef]
         /\ kyoshinDataCache' =
                AfterAbort([kyoshinDataCache EXCEPT
                                !.lastFetchedTime = nowAppTimeRef,
                                !.abortController = NextReq],
                           kyoshinDataCache.abortController)
         /\ req' = [AbortIn(req, kyoshinDataCache.abortController)
                        EXCEPT ![NextReq] =
                            [state |-> "fetching", owner |-> i, timer |-> TRUE,
                             data |-> NullData]]
         /\ uncaught' = UncaughtAfterAbort(kyoshinDataCache.abortController)

\* The station-list effect of instance i when enableKyoshinMonitor is true, up
\* to the first await of fetchSiteList; pl is the instances' pointList state.
SiteListEffect(i, pl) ==
    IF Len(kyoshinDataCache.pointList) > 0
    THEN /\ pointList' = [pl EXCEPT ![i] = kyoshinDataCache.pointList]
         /\ UNCHANGED <<fetchingRef, siteFetch>>
    ELSE IF fetchingRef[i]
         THEN /\ pointList' = pl
              /\ UNCHANGED <<fetchingRef, siteFetch>>
         ELSE /\ pointList' = pl
              /\ fetchingRef' = [fetchingRef EXCEPT ![i] = TRUE]
              /\ siteFetch' = [siteFetch EXCEPT ![i] = "fetching"]

\* if (kyoshinDataCache.abortController) { abort(); abortController = null }
AbortAndClear ==
    /\ req' = AbortIn(req, kyoshinDataCache.abortController)
    /\ kyoshinDataCache' =
           AfterAbort([kyoshinDataCache EXCEPT !.abortController = 0],
                      kyoshinDataCache.abortController)
    /\ uncaught' = UncaughtAfterAbort(kyoshinDataCache.abortController)

\* ---------------------------------------------------------------- actions
\* First render and effects of a new instance, with the prop en.
Mount(i, en) ==
    /\ life[i] = "new"
    /\ \A j \in Inst : j < i => life[j] # "new"
    /\ life' = [life EXCEPT ![i] = "mounted"]
    /\ isMountedRef' = [isMountedRef EXCEPT ![i] = TRUE]
    /\ enableKyoshinMonitor' = [enableKyoshinMonitor EXCEPT ![i] = en]
    /\ IF en
       THEN /\ SiteListEffect(i, [pointList EXCEPT ![i] = kyoshinDataCache.pointList])
            /\ fetchKyoshinMonitorData(i,
                   [lastFetchTime EXCEPT ![i] = kyoshinDataCache.lastFetchedTime])
            /\ intervalId' = [intervalId EXCEPT ![i] = TRUE]
       ELSE /\ pointList' = [pointList EXCEPT ![i] = kyoshinDataCache.pointList]
            /\ lastFetchTime' =
                   [lastFetchTime EXCEPT ![i] = kyoshinDataCache.lastFetchedTime]
            /\ UNCHANGED <<fetchingRef, siteFetch, intervalId, kyoshinDataCache,
                           req, uncaught>>
    /\ UNCHANGED <<nowAppTimeRef, onTimeUpdate, kmoniData, rafQueue,
                   timeCalls, proj>>

\* The host sets enableKyoshinMonitor to true: both effects run.
Enable(i) ==
    /\ life[i] = "mounted"
    /\ ~enableKyoshinMonitor[i]
    /\ enableKyoshinMonitor' = [enableKyoshinMonitor EXCEPT ![i] = TRUE]
    /\ SiteListEffect(i, pointList)
    /\ fetchKyoshinMonitorData(i, lastFetchTime)
    /\ intervalId' = [intervalId EXCEPT ![i] = TRUE]
    /\ UNCHANGED <<nowAppTimeRef, onTimeUpdate, life, kmoniData, isMountedRef,
                   rafQueue, timeCalls, proj>>

\* The host sets enableKyoshinMonitor to false: the poller effect's cleanup runs.
Disable(i) ==
    /\ life[i] = "mounted"
    /\ enableKyoshinMonitor[i]
    /\ enableKyoshinMonitor' = [enableKyoshinMonitor EXCEPT ![i] = FALSE]
    /\ intervalId' = [intervalId EXCEPT ![i] = FALSE]
    /\ AbortAndClear
    /\ UNCHANGED <<nowAppTimeRef, onTimeUpdate, life, pointList, kmoniData,
                   fetchingRef, lastFetchTime, isMountedRef, siteFetch,
                   rafQueue, timeCalls, proj>>

\* The instance unmounts: the cleanups of the mount effect and of the poller
\* effect run, and React discards the instance's props and state (its refs stay
\* reachable from the closures of requests still pending; lastFetchTime is read
\* by the interval callback only, which is cleared).
Unmount(i) ==
    /\ life[i] = "mounted"
    /\ life' = [life EXCEPT ![i] = "unmounted"]
    /\ isMountedRef' = [isMountedRef EXCEPT ![i] = FALSE]
    /\ intervalId' = [intervalId EXCEPT ![i] = FALSE]
    /\ AbortAndClear
    /\ enableKyoshinMonitor' = [enableKyoshinMonitor EXCEPT ![i] = FALSE]
    /\ pointList' = [pointList EXCEPT ![i] = <<>>]
    /\ kmoniData' = [kmoniData EXCEPT ![i] = NullData]
    /\ lastFetchTime' = [lastFetchTime EXCEPT ![i] = 0]
    /\ UNCHANGED <<nowAppTimeRef, onTimeUpdate, fetchingRef, siteFetch,
                   rafQueue, timeCalls, proj>>

\* The 1-second interval timer of instance i fires.
Tick(i) ==
    /\ intervalId[i]
    /\ fetchKyoshinMonitorData(i, lastFetchTime)
    /\ UNCHANGED <<nowAppTimeRef, onTimeUpdate, life, enableKyoshinMonitor,
                   pointList, kmoniData, fetchingRef, isMountedRef, intervalId,
                   siteFetch, rafQueue, timeCalls, proj>>

\* The host advances the application clock.
AdvanceTime ==
    /\ nowAppTimeRef + Step <= MaxNow
    /\ nowAppTimeRef' = nowAppTimeRef + Step
    /\ UNCHANGED <<kyoshinDataCache, onTimeUpdate, instVars, req, rafQueue,
                   timeCalls, uncaught, proj>>

\* await fetch(url, {signal}) of request r settles by itself: a response (2xx
\* or not), or a network error (TypeError).
FetchSettled(r, res) ==
    /\ req[r].state = "fetching"
    /\ IF res = "ok"
       THEN /\ req' = [req EXCEPT ![r].state = "parsing", ![r].timer = FALSE]
            /\ UNCHANGED <<kyoshinDataCache, uncaught>>
       ELSE IF res = "notOk"
       THEN /\ req' = [req EXCEPT ![r].state = "failed", ![r].timer = FALSE]
            /\ kyoshinDataCache' = Finally(kyoshinDataCache, r)
            /\ UNCHANGED uncaught
       ELSE /\ req' = [req EXCEPT ![r].state = "failed"]
            /\ kyoshinDataCache' = Finally(kyoshinDataCache, r)
            /\ uncaught' = (uncaught \/ ~Catches(res))
    /\ UNCHANGED <<nowAppTimeRef, onTimeUpdate, instVars, rafQueue,
                   timeCalls, proj>>

\* await res.json() of request r rejects: the body is not JSON (SyntaxError).
JsonRejected(r) ==
    /\ req[r].state = "parsing"
    /\ req' = [req EXCEPT ![r].state = "failed"]
    /\ kyoshinDataCache' = Finally(kyoshinDataCache, r)
    /\ uncaught' = (uncaught \/ ~Catches("SyntaxError"))
    /\ UNCHANGED <<nowAppTimeRef, onTimeUpdate, instVars, rafQueue,
                   timeCalls, proj>>

\* if (isMountedRef.current) of the instance that issued the request
MountedGate(i) == isMountedRef[i]

\* await res.json() of request r resolves with body d.
JsonParsed(r, d) ==
    /\ req[r].state = "parsing"
    /\ IF MountedGate(req[r].owner)
       THEN /\ req' = [req EXCEPT ![r].state = "queued", ![r].data = d]
            /\ rafQueue' = Append(rafQueue, r)
       ELSE /\ req' = [req EXCEPT ![r].state = "dropped"]
            /\ UNCHANGED rafQueue
    /\ kyoshinDataCache' = Finally(kyoshinDataCache, r)
    /\ UNCHANGED <<nowAppTimeRef, onTimeUpdate, instVars,
                   timeCalls, uncaught, proj>>

\* The 5-second timer armed by request r fires:
\* if (kyoshinDataCache.abortController) kyoshinDataCache.abortController.abort()
Timeout(r) ==
    /\ req[r].timer
    /\ req' = [AbortIn(req, kyoshinDataCache.abortController)
                   EXCEPT ![r].timer = FALSE]
    /\ kyoshinDataCache' =
           AfterAbort(kyoshinDataCache, kyoshinDataCache.abortController)
    /\ uncaught' = UncaughtAfterAbort(kyoshinDataCache.abortController)
    /\ UNCHANGED <<nowAppTimeRef, onTimeUpdate, instVars,
                   rafQueue, timeCalls, proj>>

\* setKmoniData(d) of instance i: React drops the update of an unmounted component
setKmoniData(i, d) ==
    IF life[i] = "mounted" THEN [kmoniData EXCEPT ![i] = d] ELSE kmoniData

\* data.realTimeData?.timestamp of updateTimeDisplay(data) throws a TypeError:
\* data itself is read without optional chaining, and a body may be JSON null
TimeDisplayThrows(d) == onTimeUpdate /\ d.isNull

\* the time updateTimeDisplay formats: the snapshot's timestamp when it is
\* there, new Date() otherwise
TimeSource(d) == IF d.realTimeData /\ d.timestamp THEN "timestamp" ELSE "now"

\* updateTimeDisplay(data) of instance i: one onTimeUpdate call when the prop is
\* there; timeCalls counts the calls and keeps the source of the last time passed
updateTimeDisplay(i, d) ==
    IF ~onTimeUpdate \/ TimeDisplayThrows(d) THEN timeCalls
    ELSE [timeCalls EXCEPT ![i] = [n |-> timeCalls[i].n + 1, last |-> TimeSource(d)]]

\* The oldest requestAnimationFrame callback runs: setKmoniData(data);
\* updateTimeDisplay(data).  An exception of updateTimeDisplay ends the callback
\* after the state update was handed to React.
Frame ==
    /\ rafQueue # <<>>
    /\ LET r == Head(rafQueue)
           i == req[r].owner
       IN /\ kmoniData' = setKmoniData(i, req[r].data)
          /\ timeCalls' = updateTimeDisplay(i, req[r].data)
          /\ req' = [req EXCEPT
                         ![r].state = IF TimeDisplayThrows(req[r].data)
                                      THEN "threw" ELSE "applied",
                         ![r].data = NullData]
    /\ rafQueue' = Tail(rafQueue)
    /\ UNCHANGED <<kyoshinDataCache, nowAppTimeRef, onTimeUpdate, life,
                   enableKyoshinMonitor, pointList, fetchingRef, lastFetchTime,
                   isMountedRef, intervalId, siteFetch, uncaught, proj>>

\* catch (err) of fetchSiteList: AbortError is logged, anything else is reported
\* with console.error; nothing is rethrown
SiteCatches(err) == IF err = "AbortError" THEN TRUE ELSE TRUE

\* finally { fetchingRef.current = false; } of the fetchSiteList call of instance i
SiteFinallyKeepsFlag(ref, i) == ref

SiteFinally(ref, i) == [ref EXCEPT ![i] = FALSE]

\* if (data.items && Array.isArray(data.items)) kyoshinDataCache.pointList = data.items;
StoreItems(cache, items) == [cache EXCEPT !.pointList = items]

\* await fetch(sitelist.json) of instance i settles: a response (2xx or not), the
\* 10-second timeout's abort (AbortError) or a network error (TypeError).
\* siteFetch keeps how the call ended until the instance starts the next one.
SiteFetchSettled(i, res) ==
    /\ siteFetch[i] = "fetching"
    /\ IF res = "ok"
       THEN /\ siteFetch' = [siteFetch EXCEPT ![i] = "parsing"]
            /\ UNCHANGED <<fetchingRef, uncaught>>
       ELSE /\ siteFetch' = [siteFetch EXCEPT ![i] = "failed"]
            /\ fetchingRef' = SiteFinally(fetchingRef, i)
            /\ uncaught' = (uncaught \/ (res # "notOk" /\ ~SiteCatches(res)))
    /\ UNCHANGED <<kyoshinDataCache, nowAppTimeRef, onTimeUpdate, life,
                   enableKyoshinMonitor, pointList, kmoniData, lastFetchTime,
                   isMountedRef, intervalId, req, rafQueue,
                   timeCalls, proj>>

\* await res.json() of the station list resolves with data.items = items.
SiteJsonParsed(i, items) ==
    /\ siteFetch[i] = "parsing"
    /\ kyoshinDataCache' = StoreItems(kyoshinDataCache, items)
    /\ pointList' = IF isMountedRef[i]
                    THEN [pointList EXCEPT ![i] = items]
                    ELSE pointList
    /\ siteFetch' = [siteFetch EXCEPT
                        ![i] = IF Len(items) > 0 THEN "loaded" ELSE "loadedEmpty"]
    /\ fetchingRef' = SiteFinally(fetchingRef, i)
    /\ UNCHANGED <<nowAppTimeRef, onTimeUpdate, life, enableKyoshinMonitor,
                   kmoniData, lastFetchTime, isMountedRef, intervalId, req,
                   rafQueue, timeCalls, uncaught, proj>>

\* await res.json() of the station list rejects (SyntaxError), or data.items is
\* no array (notArray: the else branch warns).
SiteJsonBad(i, why) ==
    /\ siteFetch[i] = "parsing"
    /\ siteFetch' = [siteFetch EXCEPT ![i] = "failed"]
    /\ fetchingRef' = SiteFinally(fetchingRef, i)
    /\ uncaught' = (uncaught \/ (why = "SyntaxError" /\ ~SiteCatches(why)))
    /\ UNCHANGED <<kyoshinDataCache, nowAppTimeRef, onTimeUpdate, life,
                   enableKyoshinMonitor, pointList, kmoniData, lastFetchTime,
                   isMountedRef, intervalId, req, rafQueue,
                   timeCalls, proj>>

\* ---------------------------------------------------------- specifications
\* mounting, enabling, disabling and unmounting of the instances in I
LifeStep(I) ==
    \/ \E i \in I, en \in BOOLEAN : Mount(i, en)
    \/ \E i \in I : Enable(i)
    \/ \E i \in I : Disable(i)
    \/ \E i \in I : Unmount(i)

\* the timers, the clock, the snapshot endpoint and the animation frames
PollStep(I) ==
    \/ \E i \in I : Tick(i)
    \/ AdvanceTime
    \/ \E r \in ReqIds, res \in {"ok", "notOk", "TypeError"} : FetchSettled(r, res)
    \/ \E r \in ReqIds : JsonRejected(r)
    \/ \E r \in ReqIds, d \in SnapshotBodies : JsonParsed(r, d)
    \/ \E r \in ReqIds : Timeout(r)
    \/ Frame

\* the station-list endpoint
SiteStep(I) ==
    \/ \E i \in I, res \in {"ok", "notOk", "AbortError", "TypeError"} :
           SiteFetchSettled(i, res)
    \/ \E i \in I, items \in SiteLists : SiteJsonParsed(i, items)
    \/ \E i \in I, why \in {"SyntaxError", "notArray"} : SiteJsonBad(i, why)

\* Spec: the host mounts the component once; everything else is free.
Next == LifeStep({1}) \/ PollStep({1}) \/ SiteStep({1})

Spec == Init /\ [][Next]_vars

\* SpecLive: Spec with the scheduling the poller relies on: a running
\* setInterval timer keeps firing, and the host keeps advancing the clock.
SpecLive ==
    /\ Init
    /\ [][Next]_vars
    /\ WF_vars(Tick(1))
    /\ WF_vars(AdvanceTime)

\* SpecPoll: the host mounts up to NumInst instances, at the same time or one
\* after the other, in a process whose cache already holds the station list
\* (so the station-list effect takes its cached branch and fetches nothing).
PollInit ==
    /\ BaseInit(<<P1, P2>>)
    /\ proj = IdleProj

PollNext == LifeStep(Inst) \/ PollStep(Inst)

SpecPoll == PollInit /\ [][PollNext]_vars

\* SpecSite: the host mounts up to NumInst instances while its application
\* clock is still unset (nowAppTimeRef.current = 0), so fetchKyoshinMonitorData
\* returns at its first line and only the station-list loader is at work.
SiteNext == LifeStep(Inst) \/ SiteStep(Inst)

SpecSite == Init /\ [][SiteNext]_vars

\* ------------------------------------------- the projector on drawn inputs
Codes == {"a", "b", "c", "d", "s", "A", "D", "?"}

RECURSIVE SeqsUpTo(_, _)
SeqsUpTo(S, n) ==
    IF n = 0 THEN {<<>>}
    ELSE LET shorter == SeqsUpTo(S, n - 1)
         IN shorter \cup {Append(q, x) : q \in shorter, x \in S}

ProjInit ==
    /\ BaseInit(<<>>)
    /\ onTimeUpdate
    /\ \E en \in BOOLEAN, pl \in SeqsUpTo({P1, P2}, MaxStations),
          d \in {Kmoni(TRUE, int) : int \in SeqsUpTo(Codes, MaxCodes)}
               \cup {NullData, NoIntensityData, EmptyObjectData} :
          proj = [enable |-> en, data |-> d, pointList |-> pl,
                  features |-> <<>>, rendered |-> FALSE]

\* One render: the useMemo computes the feature collection from its inputs.
ProjRender ==
    /\ ~proj.rendered
    /\ proj' = [proj EXCEPT
                   !.features = siteGeoJSON(proj.enable, proj.data, proj.pointList),
                   !.rendered = TRUE]
    /\ UNCHANGED <<kyoshinDataCache, nowAppTimeRef, onTimeUpdate, instVars, req,
                   rafQueue, timeCalls, uncaught>>

ProjNext == ProjRender

SpecProj == ProjInit /\ [][ProjNext]_vars

\* what instance i renders: the features handed to <Source>, <<>> for `return null`
Rendered(i) ==
    IF life[i] # "mounted" THEN <<>>
    ELSE siteGeoJSON(enableKyoshinMonitor[i], kmoniData[i], pointList[i])

\* ------------------------------------------------------------------ claims
InFlightSet == {r \in ReqIds : Pending(r)}

\* C1: at every moment at most one snapshot request is in flight (issued and
\* neither completed nor aborted).
C1_AtMostOneInFlight == Cardinality(InFlightSet) <= 1

\* C2: snapshot responses are applied in request-issue order: once a request's
\* result has been applied to an instance, no result of a request that the
\* instance issued earlier is applied afterwards.
C2_AppliedInIssueOrder ==
    [][\A r \in ReqIds :
          (req[r].state = "queued" /\ req'[r].state = "applied"
              /\ life[req[r].owner] = "mounted")
          => \A later \in ReqIds :
                 (later > r /\ req[later].owner = req[r].owner)
                 => req[later].state # "applied"]_vars

\* C3: after an instance has been unmounted no asynchronous completion sets
\* its snapshot state or its station-list state or invokes its time callback.
C3_NoUpdateAfterUnmount ==
    [][\A i \in Inst :
          life[i] = "unmounted"
          => /\ timeCalls'[i] = timeCalls[i]
             /\ kmoniData'[i] = kmoniData[i]
             /\ pointList'[i] = pointList[i]]_vars

\* C4: when the poller of an instance is disabled or the instance unmounts, its
\* 1-second timer is stopped and no snapshot request of that poller remains in
\* flight after the cleanup; no request is issued by a poller that is not enabled.
C4_CleanupCancelsAll ==
    [][\A i \in Inst :
          /\ (intervalId[i] /\ (~enableKyoshinMonitor'[i] \/ life'[i] # "mounted"))
             => /\ ~intervalId'[i]
                /\ \A r \in ReqIds :
                       req'[r].owner = i => req'[r].state \notin {"fetching", "parsing"}
          /\ \A r \in ReqIds :
                 (req[r].state = "none" /\ req'[r].state # "none" /\ req'[r].owner = i)
                 => enableKyoshinMonitor'[i]]_vars

\* C5: a request is issued only when at least 500 ms of application time have
\* elapsed since the previous fetch attempt, taken from the timestamp shared
\* across mounts and instances (kyoshinDataCache.lastFetchedTime).
C5_SharedRateLimit ==
    [][(NextReq > 1 /\ NextReq' > NextReq)
          => nowAppTimeRef - kyoshinDataCache.lastFetchedTime >= RateLimitMs]_vars

\* C6: a snapshot fetch that ends in abort, a non-2xx status, a parse failure or
\* any other exception changes no instance's snapshot state, schedules no
\* animation-frame callback, invokes no time callback and lets no exception
\* escape the call.
C6_FailureChangesNothing ==
    [][\A r \in ReqIds :
          (req[r].state \in {"fetching", "parsing"} /\ req'[r].state = "failed")
          => /\ \A i \in Inst : life'[i] = "mounted" => kmoniData'[i] = kmoniData[i]
             /\ timeCalls' = timeCalls
             /\ rafQueue' = rafQueue
             /\ ~uncaught']_vars

\* a fetch failed while the snapshot applied from an earlier request is displayed
C6_Witness ==
    \E r \in ReqIds, earlier \in ReqIds :
        /\ earlier < r
        /\ req[r].state = "failed"
        /\ req[earlier].state = "applied"
        /\ req[r].owner = req[earlier].owner
        /\ life[req[r].owner] = "mounted"
        /\ Len(Rendered(req[r].owner)) > 0
        /\ rafQueue = <<>>
        /\ ~uncaught

\* the shape the overlay needs of a snapshot body: realTimeData with an
\* intensity-code sequence (a body that lacks only the timestamp is applied on
\* purpose: updateTimeDisplay falls back to the wall clock)
ExpectedShape(d) == d.realTimeData /\ d.hasIntensity

\* C7: a 2xx snapshot response that parses but has not the expected shape does
\* not replace the current snapshot state.
C7_MalformedNotApplied ==
    [][\A i \in Inst :
          (life'[i] = "mounted" /\ kmoniData'[i] # kmoniData[i])
          => ExpectedShape(kmoniData'[i])]_vars

\* the indices i <= min(|S|,|K|) whose code is none of the three lowest codes
KeptIndices(S, K) ==
    {idx \in 1..Min(Len(S), Len(K)) : K[idx] \notin {"a", "b", "c"}}

ProjCase ==
    /\ proj.rendered
    /\ proj.enable
    /\ Len(proj.pointList) > 0
    /\ ~proj.data.isNull /\ proj.data.realTimeData /\ proj.data.hasIntensity

\* C8: with the component enabled, S non-empty and K present, the number of
\* overlay features is the number of indices i <= min(|S|,|K|) whose code is none
\* of the three lowest codes; it never exceeds min(|S|,|K|), and the codes "abc"
\* give 0 features.
C8_FeatureCount ==
    ProjCase =>
        /\ Len(proj.features) =
               Cardinality(KeptIndices(proj.pointList, proj.data.intensity))
        /\ Len(proj.features) <= Min(Len(proj.pointList), Len(proj.data.intensity))
        /\ proj.data.intensity = <<"a", "b", "c">> => proj.features = <<>>

\* three stations, codes "sad": the second station is skipped, two features
C8_Witness ==
    /\ ProjCase
    /\ Len(proj.pointList) = 3
    /\ proj.data.intensity = <<"s", "a", "d">>
    /\ Len(proj.features) = 2

\* the kept indices in ascending order
KeptSeq(S, K) ==
    SelectSeq([idx \in 1..Min(Len(S), Len(K)) |-> idx],
              LAMBDA idx : K[idx] \notin {"a", "b", "c"})

\* the colour the table gives the lower-cased code, the fallback outside the table
TableColor(ch) ==
    LET low == IF ch \in DOMAIN UpperToLower THEN UpperToLower[ch] ELSE ch
    IN IF low \in DOMAIN colorList THEN colorList[low] ELSE "#b00201"

\* C9: the j-th feature comes from the j-th kept station index i (ascending):
\* its geometry is (longitude, latitude) of station i, its radius is 3 and its
\* colour is the table entry of the lower-cased code or #b00201; S =
\* [[35,139],[34,135]] with codes "sd" gives #FF0000 at [139,35], then #0000FF
\* at [135,34].
C9_FeatureContent ==
    ProjCase =>
        LET S == proj.pointList
            K == proj.data.intensity
            kept == KeptSeq(S, K)
        IN /\ Len(proj.features) = Len(kept)
           /\ \A j \in 1..Len(kept) :
                  /\ j <= Len(proj.features)
                  /\ proj.features[j].coordinates = <<S[kept[j]][2], S[kept[j]][1]>>
                  /\ proj.features[j].radius = 3
                  /\ proj.features[j].color = TableColor(K[kept[j]])
           /\ (S = <<P1, P2>> /\ K = <<"s", "d">>)
              => proj.features =
                     <<[coordinates |-> <<139, 35>>, color |-> "#FF0000", radius |-> 3],
                       [coordinates |-> <<135, 34>>, color |-> "#0000FF", radius |-> 3]>>

\* an upper-case code and a code outside the table, rendered in station order
C9_Witness ==
    /\ ProjCase
    /\ proj.pointList = <<P1, P2, P1>>
    /\ proj.data.intensity = <<"D", "c", "?">>
    /\ Len(proj.features) = 2
    /\ proj.features[1].color = "#0000FF"
    /\ proj.features[2].color = "#b00201"

\* C10: whenever the component is disabled, or no snapshot has been applied
\* yet, or the station list is empty, nothing is drawn.
C10_NoOpOverlayEmpty ==
    \A i \in Inst :
        (\/ ~enableKyoshinMonitor[i]
         \/ kmoniData[i].isNull
         \/ Len(pointList[i]) = 0)
        => Rendered(i) = <<>>

\* a disabled instance still holding a snapshot and a station list that would draw
C10_Witness ==
    \E i \in Inst :
        /\ life[i] = "mounted"
        /\ ~enableKyoshinMonitor[i]
        /\ Len(siteGeoJSON(TRUE, kmoniData[i], pointList[i])) > 0

\* ------------------------------------------------- station-list loader claims
\* the fetchSiteList calls that have a network request outstanding
SiteInFlight == {i \in Inst : siteFetch[i] \in {"fetching", "parsing"}}

\* a step in which instance i issues a station-list network request
SiteRequestIssued(i) == siteFetch[i] # "fetching" /\ siteFetch'[i] = "fetching"

\* a step in which the host turns instance i on (mounting it enabled included)
EnableTransition(i) == ~enableKyoshinMonitor[i] /\ enableKyoshinMonitor'[i]

\* C11: once a station-list fetch has succeeded with a non-empty list, the
\* process-wide cache holds a list, and every later enable, mount or remount
\* shows the cached list and issues no station-list network request.
C11_CachedListServesLaterEnables ==
    [][(\E j \in Inst : siteFetch[j] = "loaded")
       => /\ Len(kyoshinDataCache.pointList) > 0
          /\ \A i \in Inst : ~SiteRequestIssued(i)
          /\ \A i \in Inst :
                 EnableTransition(i) => pointList'[i] = kyoshinDataCache.pointList]_vars

\* C12: at most one station-list fetch is in flight at any time, also when the
\* component is instantiated more than once while the first fetch is pending.
C12_OneSiteFetchInFlight == Cardinality(SiteInFlight) <= 1

\* C13: a station-list fetch that fails (non-2xx, no items array, unparsable
\* body, timeout abort, network error) leaves every station list and the cache
\* as they were, lets no exception escape and clears fetchingRef; after it the
\* instance issues no request by itself, and its next enable transition with
\* the cache still empty issues a fresh fetch, whose success fills the cache and
\* the list of the instance.
C13_SiteFailureIsQuietAndRecoverable ==
    [][\A i \in Inst :
          /\ (siteFetch[i] \in {"fetching", "parsing"} /\ siteFetch'[i] = "failed")
             => /\ pointList' = pointList
                /\ kyoshinDataCache' = kyoshinDataCache
                /\ ~uncaught'
                /\ ~fetchingRef'[i]
          /\ (siteFetch[i] = "failed" /\ SiteRequestIssued(i))
             => EnableTransition(i)
          /\ (siteFetch[i] = "failed" /\ EnableTransition(i)
                 /\ Len(kyoshinDataCache.pointList) = 0)
             => SiteRequestIssued(i)
          /\ (siteFetch[i] = "parsing" /\ siteFetch'[i] = "loaded")
             => /\ Len(kyoshinDataCache'.pointList) > 0
                /\ isMountedRef[i] => pointList'[i] = kyoshinDataCache'.pointList
                /\ ~fetchingRef'[i]]_vars

\* a mounted, enabled instance whose fetch failed: nothing listed, nothing
\* cached, nothing escaped, flag cleared and no request outstanding
C13_Witness ==
    \E i \in Inst :
        /\ siteFetch[i] = "failed"
        /\ life[i] = "mounted"
        /\ enableKyoshinMonitor[i]
        /\ ~fetchingRef[i]
        /\ Len(pointList[i]) = 0
        /\ Len(kyoshinDataCache.pointList) = 0
        /\ SiteInFlight = {}
        /\ ~uncaught

\* C17: from the first state in which the process-wide cache holds a non-empty
\* list no action changes the cached list, and a station-list request is issued
\* only while the cache is empty.
C17_CachedListImmutable ==
    [][/\ Len(kyoshinDataCache.pointList) > 0
          => kyoshinDataCache'.pointList = kyoshinDataCache.pointList
       /\ \A i \in Inst :
              SiteRequestIssued(i) => Len(kyoshinDataCache.pointList) = 0]_vars

\* ------------------------------------------------------------ projector claims
\* C18: no emitted overlay feature carries the fully transparent colour
\* "#00000000", for every snapshot code sequence, upper-case codes included.
C18_NoTransparentFeature ==
    proj.rendered =>
        \A k \in 1..Len(proj.features) : proj.features[k].color # "#00000000"

\* --------------------------------------------------------------- poller claims
\* how often request r stands in the animation-frame queue q
TimesQueued(q, r) == Cardinality({k \in 1..Len(q) : q[k] = r})

\* the time the callback must show for body d
ExpectedTimeSource(d) ==
    IF ~d.isNull /\ d.realTimeData /\ d.timestamp THEN "timestamp" ELSE "now"

\* the animation-frame callback of request r runs in this step
FrameRuns(r) == req[r].state = "queued" /\ req'[r].state # "queued"

\* the frame of request r replaces the snapshot of its instance by the parsed
\* body and calls onTimeUpdate, when supplied, once with the expected time
AppliedByFrame(r) ==
    LET i == req[r].owner
    IN /\ kmoniData'[i] = req[r].data
       /\ req'[r].state = "applied"
       /\ IF onTimeUpdate
          THEN timeCalls'[i] = [n |-> timeCalls[i].n + 1,
                                last |-> ExpectedTimeSource(req[r].data)]
          ELSE timeCalls'[i] = timeCalls[i]
       /\ \A j \in Inst \ {i} : timeCalls'[j] = timeCalls[j]

\* C14: each snapshot response that is parsed while its instance is mounted is
\* queued for exactly one animation frame, and that frame replaces the current
\* snapshot wholesale by the parsed body and, in the same step, invokes the
\* time callback (when supplied) exactly once with the time of the snapshot's
\* timestamp, or with the wall clock when the snapshot has no timestamp; an
\* applied response is never applied again.
C14_SuccessAppliedOnce ==
    [][\A r \in ReqIds :
          /\ (req[r].state = "parsing" /\ req'[r].state # "parsing"
                 /\ req'[r].state # "failed" /\ isMountedRef[req[r].owner])
             => req'[r].state = "queued" /\ TimesQueued(rafQueue', r) = 1
          /\ FrameRuns(r) => AppliedByFrame(r)
          /\ req[r].state = "applied"
             => req'[r].state = "applied" /\ TimesQueued(rafQueue', r) = 0]_vars

\* C19: whenever a snapshot request is pending, the shared cancellation handle
\* is non-null and is that request's controller (so the finally block of an
\* aborted or superseded request has not cleared the handle of its successor).
C19_HandleTracksPending ==
    \A r \in ReqIds : Pending(r) => kyoshinDataCache.abortController = r

\* C15: a snapshot request that is still pending when its 5-second timeout
\* fires is aborted by it, whatever ticks, supersessions and completions of
\* other requests happened in between.
C15_TimeoutAbortsItsRequest ==
    [][\A r \in ReqIds :
          (Pending(r) /\ req[r].timer /\ ~req'[r].timer)
          => ~(req'[r].state = "fetching")]_vars

\* C20: the timer armed for a request is cancelled when that request ends for
\* any reason, and a timer that fires aborts no request issued later than its
\* own.
C20_TimerEndsWithItsRequest ==
    [][\A r \in ReqIds :
          /\ req'[r].timer => req'[r].state = "fetching"
          /\ (req[r].timer /\ ~req'[r].timer)
             => \A later \in ReqIds :
                    (later > r /\ Pending(later)) => req'[later] = req[later]]_vars

\* instance 1 is mounted and enabled: its polling loop is on
Running == life[1] = "mounted" /\ enableKyoshinMonitor[1]

\* request r of the running instance failed, is the last one issued, and the
\* bounds leave room for one more request and for a clock 500 ms past it
FailedWithRoom(r) ==
    /\ req[r].state = "failed"
    /\ NextReq = r + 1
    /\ Running
    /\ lastFetchTime[1] + RateLimitMs <= MaxNow

\* C16: no failure stops the polling loop: while the instance stays mounted
\* and enabled and the clock keeps advancing, every failed snapshot fetch
\* (abort, HTTP error, unparsable body, network error) is eventually followed by
\* a tick that issues a new request.
C16_FailureDoesNotStopPolling ==
    \A r \in 1..(MaxReq - 1) :
        FailedWithRoom(r) ~> (req[r + 1].state # "none" \/ ~Running)

\* a request that ended with an HTTP error (its timer was cleared), and the
\* next request issued by a later tick of the same, still running, instance
C16_Witness ==
    \E r \in 1..(MaxReq - 1) :
        /\ req[r].state = "failed"
        /\ ~req[r].timer
        /\ req[r + 1].state = "fetching"
        /\ req[r + 1].owner = req[r].owner
        /\ Running

====
